---- MODULE Spec2Model ----
(***************************************************************************)
(* Model of src/src/lib.rs: the bounds-checked guest-memory accessors      *)
(* (memory_ptr_mut, get_value, get_value_mut, memory_slice,                *)
(* memory_string), the error model (ApiError, ErrorCode, log_call) and the *)
(* start_training import (MLApiHost::imports and its closure,              *)
(* MLApiHost::start_training_export).                                      *)
(*                                                                         *)
(* Integer widths are scaled: u32 is PtrBits bits wide and usize is twice  *)
(* as wide (the 64-bit targets wasmtime runs on), so that every u32 fits   *)
(* a usize and ptr + size_of::<T>() cannot wrap, as in the build.          *)
(* Guest memory is a sequence of bytes; byte offset i is element i + 1.    *)
(* The base address of the buffer is aligned for every type, so an access  *)
(* at offset ptr is aligned for T iff ptr is a multiple of align_of::<T>().*)
(***************************************************************************)
EXTENDS Integers, Sequences, FiniteSets, TLC

VARIABLES mem, exportKind, linker, importRes, inp, call

vars == <<mem, exportKind, linker, importRes, inp, call>>

(***************************************************************************)
(* Bounds of the model.                                                    *)
(***************************************************************************)
PtrBits == 4

U32Max == 2^PtrBits - 1
UsizeMax == 2^(2 * PtrBits) - 1
U32 == 0..U32Max

(***************************************************************************)
(* ErrorCode (#[repr(u32)]).                                               *)
(***************************************************************************)
Success == 0
InvalidArguments == 5
NotFound == 6

(***************************************************************************)
(* Option and Result values.                                               *)
(***************************************************************************)
None == [some |-> FALSE]
Some(v) == [some |-> TRUE, v |-> v]
Ok(v) == [ok |-> TRUE, val |-> v]
Err(e) == [ok |-> FALSE, err |-> e]

(***************************************************************************)
(* ApiErrorMessage and its conversions.                                    *)
(***************************************************************************)
MsgNone == [tag |-> "None", s |-> ""]
MsgStatic(s) == [tag |-> "Static", s |-> s]
MsgDynamic(s) == [tag |-> "Dynamic", s |-> s]

\* impl From<&'static str> for ApiErrorMessage
MsgFromStatic(s) == IF s = "" THEN MsgNone ELSE MsgStatic(s)

\* ApiErrorMessage::as_str
as_str(m) == IF m.tag = "None" THEN None ELSE Some(m.s)

(***************************************************************************)
(* ApiError: the enum has the single variant InvalidArguments { msg }.     *)
(***************************************************************************)
invalid_arguments(s) == [kind |-> "InvalidArguments", msg |-> MsgFromStatic(s)]

\* ApiError::code
code(err) == CASE err.kind = "InvalidArguments" -> InvalidArguments

\* Display for DisplayableApiError
display(err) ==
    CASE err.kind = "InvalidArguments" ->
        IF as_str(err.msg).some
        THEN "Invalid arguments" \o ": " \o as_str(err.msg).v
        ELSE "Invalid arguments"

(***************************************************************************)
(* The element types the accessors are instantiated with: size_of and      *)
(* align_of of a T: PlainOldData (any 'static + Copy + Sized + Send +      *)
(* Sync type, zero-sized types included).                                  *)
(***************************************************************************)
FutureHandleSize == 8
ProtocolConfigSize == 0

TyU8 == [name |-> "u8", size |-> 1, align |-> 1]
TyU16 == [name |-> "u16", size |-> 2, align |-> 2]
TyProtocolConfig == [name |-> "ProtocolConfig", size |-> ProtocolConfigSize, align |-> 1]
TyFutureHandle == [name |-> "FutureHandle", size |-> FutureHandleSize, align |-> FutureHandleSize]
\* a byte array so large that a u32 count of them overflows usize
TyBig == [name |-> "[u8; N]", size |-> 2 * (U32Max + 1), align |-> 1]

PodTypes == {TyU8, TyU16, TyProtocolConfig, TyFutureHandle, TyBig}

Aligned(ptr, T) == ptr % T.align = 0

(***************************************************************************)
(* What a build does with a misaligned reference (undefined behaviour):    *)
(* the access is performed anyway, or the checked build panics.            *)
(***************************************************************************)
UBOutcomes == {"access", "panic"}

(***************************************************************************)
(* The guest's linear memory when the instance is created: "A", "e" with   *)
(* an acute accent (2 bytes), a byte that is never valid in UTF-8, zeroes. *)
(***************************************************************************)
Image == <<65, 195, 169, 255, 0, 0, 0, 0, 0, 0, 0, 0>>

(***************************************************************************)
(* Slice indexing of the standard library.                                 *)
(***************************************************************************)
\* usize::checked_mul
checked_mul(a, b) == IF a * b > UsizeMax THEN None ELSE Some(a * b)

\* usize::checked_div
checked_div(a, b) == IF b = 0 THEN None ELSE Some(a \div b)

\* get(start..end) without the comparison of end with the length
get_range_unchecked(n, start, end) ==
    IF start <= end THEN Some([start |-> start, end |-> end]) ELSE None

\* <[u8]>::get(start..end) on a slice of n bytes: the range, relative to the slice
get_range(n, start, end) ==
    IF start <= end /\ end <= n THEN Some([start |-> start, end |-> end]) ELSE None

\* <[u8]>::get(start..)
get_from(n, start) == get_range(n, start, n)

\* <[u8]>::get(..end)
get_to(n, end) == get_range(n, 0, end)

\* the byte offsets start .. end-1
Offsets(start, end) == {i \in 0..UsizeMax : start <= i /\ i < end}

\* the bytes at offsets start .. end-1; past the buffer lies a guard byte
BytesAt(memory, start, end) ==
    [i \in 1..(end - start) |-> IF start + i <= Len(memory) THEN memory[start + i] ELSE 170]

(***************************************************************************)
(* memory_ptr_mut / memory_ptr: the raw pointer, as the byte offset.       *)
(***************************************************************************)
memory_ptr_mut(memory, ptr, T) ==
    LET start == ptr
        end == start + T.size
        byte_slice == get_range(Len(memory), start, end)
    IN  IF byte_slice.some THEN Ok(byte_slice.v.start) ELSE Err(invalid_arguments(""))

memory_ptr(memory, ptr, T) == memory_ptr_mut(memory, ptr, T)

(***************************************************************************)
(* The outcome of an accessor: st is "ok", "err" (an ApiError) or "panic"  *)
(* (the build's answer to a misaligned reference); touched are the byte    *)
(* offsets of the reference or slice handed out.                           *)
(***************************************************************************)
AccOk(v, touched) == [st |-> "ok", val |-> v, err |-> invalid_arguments(""), touched |-> touched]
AccErr(e) == [st |-> "err", val |-> <<>>, err |-> e, touched |-> {}]
AccPanic == [st |-> "panic", val |-> <<>>, err |-> invalid_arguments(""), touched |-> {}]

\* unsafe { &*p } / unsafe { &mut *p } for p: *T at byte offset off
Deref(memory, off, T, ub) ==
    IF Aligned(off, T) \/ ub = "access"
    THEN AccOk([off |-> off, bytes |-> BytesAt(memory, off, off + T.size)],
               Offsets(off, off + T.size))
    ELSE AccPanic

\* get_value: a &T into the buffer
get_value(memory, ptr, T, ub) ==
    LET p == memory_ptr(memory, ptr, T)
    IN  IF p.ok THEN Deref(memory, p.val, T, ub) ELSE AccErr(p.err)

\* get_value_mut: a &mut T into the buffer
get_value_mut(memory, ptr, T, ub) ==
    LET p == memory_ptr_mut(memory, ptr, T)
    IN  IF p.ok THEN Deref(memory, p.val, T, ub) ELSE AccErr(p.err)

\* *output = res through a &mut T at byte offset off: the bytes of res replace
\* those of the buffer
Store(memory, off, bytes) ==
    [i \in 1..Len(memory) |->
        IF off < i /\ i <= off + Len(bytes) THEN bytes[i - off] ELSE memory[i]]

(***************************************************************************)
(* memory_slice: a &[T] of len elements at byte offset ptr.                *)
(***************************************************************************)
memory_slice(memory, ptr, len, T, ub) ==
    LET blen == checked_mul(len, T.size)
        s1 == get_from(Len(memory), ptr)
        s2 == IF s1.some /\ blen.some
              THEN get_to(s1.v.end - s1.v.start, blen.v)
              ELSE None
        n == IF s2.some THEN checked_div(s2.v.end - s2.v.start, T.size) ELSE None
        off == ptr
    IN  IF ~blen.some THEN AccErr(invalid_arguments(""))
        ELSE IF ~s2.some THEN AccErr(invalid_arguments(""))
        ELSE IF ~n.some THEN AccErr(invalid_arguments(""))
        ELSE IF ~(Aligned(off, T) \/ ub = "access") THEN AccPanic
        ELSE AccOk([off |-> off,
                    elems |-> [k \in 1..n.v |->
                                 BytesAt(memory, off + (k - 1) * T.size, off + k * T.size)]],
                   Offsets(off, off + n.v * T.size))

(***************************************************************************)
(* std::str::from_utf8: the validation loop of the standard library, with  *)
(* the Utf8Error { valid_up_to, error_len } it reports.  error_len 0       *)
(* stands for None (the input ends inside a character).                    *)
(***************************************************************************)
utf8_char_width(b) ==
    IF b < 128 THEN 1
    ELSE IF 194 <= b /\ b <= 223 THEN 2
    ELSE IF 224 <= b /\ b <= 239 THEN 3
    ELSE IF 240 <= b /\ b <= 244 THEN 4
    ELSE 0

IsCont(b) == 128 <= b /\ b <= 191

\* the second byte of a three-byte character
Second3(first, b) ==
    \/ first = 224 /\ 160 <= b /\ b <= 191
    \/ 225 <= first /\ first <= 236 /\ IsCont(b)
    \/ first = 237 /\ 128 <= b /\ b <= 159
    \/ 238 <= first /\ first <= 239 /\ IsCont(b)

\* the second byte of a four-byte character
Second4(first, b) ==
    \/ first = 240 /\ 144 <= b /\ b <= 191
    \/ 241 <= first /\ first <= 243 /\ IsCont(b)
    \/ first = 244 /\ 128 <= b /\ b <= 143

Utf8Good(next) == [good |-> TRUE, next |-> next, error_len |-> 0]
Utf8Bad(error_len) == [good |-> FALSE, next |-> 0, error_len |-> error_len]

\* one character starting at v[i]
Utf8Char(v, i) ==
    LET n == Len(v)
        first == v[i]
        w == utf8_char_width(first)
    IN  IF w = 1 THEN Utf8Good(i + 1)
        ELSE IF w = 2 THEN
            IF i + 1 > n THEN Utf8Bad(0)
            ELSE IF ~IsCont(v[i + 1]) THEN Utf8Bad(1)
            ELSE Utf8Good(i + 2)
        ELSE IF w = 3 THEN
            IF i + 1 > n THEN Utf8Bad(0)
            ELSE IF ~Second3(first, v[i + 1]) THEN Utf8Bad(1)
            ELSE IF i + 2 > n THEN Utf8Bad(0)
            ELSE IF ~IsCont(v[i + 2]) THEN Utf8Bad(2)
            ELSE Utf8Good(i + 3)
        ELSE IF w = 4 THEN
            IF i + 1 > n THEN Utf8Bad(0)
            ELSE IF ~Second4(first, v[i + 1]) THEN Utf8Bad(1)
            ELSE IF i + 2 > n THEN Utf8Bad(0)
            ELSE IF ~IsCont(v[i + 2]) THEN Utf8Bad(2)
            ELSE IF i + 3 > n THEN Utf8Bad(0)
            ELSE IF ~IsCont(v[i + 3]) THEN Utf8Bad(3)
            ELSE Utf8Good(i + 4)
        ELSE Utf8Bad(1)

RECURSIVE run_utf8_validation(_, _)
run_utf8_validation(v, i) ==
    IF i > Len(v) THEN Ok(v)
    ELSE LET c == Utf8Char(v, i)
         IN  IF c.good THEN run_utf8_validation(v, c.next)
             ELSE Err([valid_up_to |-> i - 1, error_len |-> c.error_len])

from_utf8(v) == run_utf8_validation(v, 1)

\* Display for Utf8Error
Utf8ErrorToString(e) ==
    IF e.error_len # 0
    THEN "invalid utf-8 sequence of " \o ToString(e.error_len)
            \o " bytes from index " \o ToString(e.valid_up_to)
    ELSE "incomplete utf-8 byte sequence from index " \o ToString(e.valid_up_to)

\* error_display_chain: a Utf8Error has no source
error_display_chain(e) == Utf8ErrorToString(e)

\* ApiError::invalid_arguments_err
invalid_arguments_err(e) ==
    [kind |-> "InvalidArguments", msg |-> MsgDynamic(error_display_chain(e))]

(***************************************************************************)
(* memory_string: a &str of len bytes at byte offset ptr.                  *)
(***************************************************************************)
RECURSIVE Flatten(_)
Flatten(ss) == IF ss = <<>> THEN <<>> ELSE Head(ss) \o Flatten(Tail(ss))

\* memory_string without the validation (from_utf8_unchecked)
memory_string_unchecked(memory, ptr, len) ==
    LET bytes == memory_slice(memory, ptr, len, TyU8, "access")
    IN  IF bytes.st # "ok" THEN bytes
        ELSE AccOk([off |-> bytes.val.off, bytes |-> Flatten(bytes.val.elems)], bytes.touched)

memory_string(memory, ptr, len) ==
    LET bytes == memory_slice(memory, ptr, len, TyU8, "access")
        text == from_utf8(Flatten(bytes.val.elems))
    IN  IF bytes.st # "ok" THEN bytes
        ELSE IF text.ok THEN AccOk([off |-> bytes.val.off, bytes |-> text.val], bytes.touched)
        ELSE AccErr(invalid_arguments_err(text.err))

(***************************************************************************)
(* HostModule::log_call: the u32 handed to the guest and the warnings      *)
(* written on the way.  Name is HostModule::name() of MLApiHost.           *)
(***************************************************************************)
Name == "MLApiHost"

WarnText(function, err) == Name \o " \"" \o function \o "\" failed: " \o display(err)

\* log_call returning Success in both arms
log_call_success(function, res) ==
    IF res.ok THEN [code |-> Success, log |-> <<>>]
    ELSE [code |-> Success,
          log |-> IF code(res.err) # NotFound
                  THEN <<[level |-> "warn", text |-> WarnText(function, res.err)]>>
                  ELSE <<>>]

\* log_call with the comparison with NotFound inverted
log_call_inverted(function, res) ==
    IF res.ok THEN [code |-> Success, log |-> <<>>]
    ELSE [code |-> code(res.err),
          log |-> IF code(res.err) = NotFound
                  THEN <<[level |-> "warn", text |-> WarnText(function, res.err)]>>
                  ELSE <<>>]

log_call(function, res) ==
    IF res.ok THEN [code |-> Success, log |-> <<>>]
    ELSE [code |-> code(res.err),
          log |-> IF code(res.err) # NotFound
                  THEN <<[level |-> "warn", text |-> WarnText(function, res.err)]>>
                  ELSE <<>>]

(***************************************************************************)
(* get_host_context_from_caller: the guest's export named "memory", which  *)
(* may be missing ("none") or not a memory ("func"), and the view over the *)
(* buffer as it is when the call is made.                                  *)
(***************************************************************************)
ExportKinds == {"memory", "none", "func"}

\* get_host_context_from_caller without into_memory's check
get_host_context_any_export(memory, export) ==
    IF export = "none" THEN Err(invalid_arguments("")) ELSE Ok(memory)

\* get_host_context_from_caller handing out the view taken when the instance was created
get_host_context_cached(memory, export) ==
    IF export = "none" THEN Err(invalid_arguments(""))
    ELSE IF export # "memory" THEN Err(invalid_arguments(""))
    ELSE Ok([i \in 1..Len(Image) |-> IF i <= Len(memory) THEN memory[i] ELSE 170])

get_host_context_from_caller(memory, export) ==
    IF export = "none" THEN Err(invalid_arguments(""))
    ELSE IF export # "memory" THEN Err(invalid_arguments(""))
    ELSE Ok(memory)

(***************************************************************************)
(* MLApiHost::imports on a wasmtime Linker.  The linker is the set of its  *)
(* definitions; binding tells which call of imports made a definition.     *)
(* func_wrap is the Linker's: it refuses a name that is already defined.   *)
(***************************************************************************)
namespace == <<"hello", "world">>

ImportName == namespace[2] \o "__" \o "start_training"

Defined(lk, module, name) == \E d \in lk : d.module = module /\ d.name = name

func_wrap(lk, module, name, binding) ==
    IF Defined(lk, module, name)
    THEN [res |-> Err("import of " \o module \o "::" \o name \o " defined twice"),
          linker |-> lk]
    ELSE [res |-> Ok(<<>>),
          linker |-> lk \cup {[module |-> module, name |-> name, binding |-> binding]}]

\* imports dropping the error of func_wrap
imports_ignoring_error(lk, binding) ==
    LET w == func_wrap(lk, namespace[1], ImportName, binding)
    IN  [res |-> Ok(<<>>), linker |-> w.linker]

imports(lk, binding) ==
    LET w == func_wrap(lk, namespace[1], ImportName, binding)
    IN  [res |-> IF w.res.ok THEN Ok(<<>>) ELSE Err([kind |-> "Import", source |-> w.res.err]),
         linker |-> w.linker]

\* the closure a guest's call of the import reaches
BindingOf(lk) == (CHOOSE d \in lk : d.module = namespace[1] /\ d.name = ImportName).binding

Registered == Defined(linker, namespace[1], ImportName)

\* a failed registration aborts the creation of the instance (ModuleError::Instantiation):
\* the guest runs only when every call of imports returned Ok
Instantiated == Registered /\ \A i \in 1..Len(importRes) : importRes[i].ok

(***************************************************************************)
(* Inputs.                                                                 *)
(***************************************************************************)
MaxImports == 2
GrowStep == 4

\* u64::to_le_bytes, n bytes
RECURSIVE LE(_, _)
LE(v, n) == IF n = 0 THEN <<>> ELSE <<v % 256>> \o LE(v \div 256, n - 1)

\* lengths of string arguments: empty, short, the longest u32
StrLens == {0, 1, 2, 3, U32Max}

\* output pointers: aligned, misaligned, the last u32
OutPtrs == {0, 3, U32Max}

\* what Self::get(host_context) answers
GetResults == {Ok(<<>>), Err(invalid_arguments("no MLApiHost in the context"))}

\* what start_training_shim answers: FutureHandle(1), FutureHandle(33023), errors
ShimResults ==
    {Ok(LE(1, FutureHandleSize)), Ok(LE(33023, FutureHandleSize)),
     Err(invalid_arguments("")), Err(invalid_arguments("start_training failed"))}

NoInput == [op |-> "none"]

(***************************************************************************)
(* One call of the import is the steps of its closure and of               *)
(* start_training_export, in the order the code takes them; call is the    *)
(* record of the call in progress (or of the last one):                    *)
(*   pc         the step to take next                                      *)
(*   idx        the string argument to decode next                         *)
(*   res        the Result<(), ApiError> so far                            *)
(*   handle     what start_training_shim returned                          *)
(*   ret        what the guest's call got                                  *)
(*   log        the warnings written                                       *)
(*   view_len   the length of the WasmMemoryHandle of this call            *)
(* and, as history: shim_calls, decoded, got, proto_ok, shim_ok, written   *)
(* (what has happened), unchanged (no byte of the buffer differs from the  *)
(* start of the call), oob (a reference or slice handed out reaches past   *)
(* the buffer), bad_arg (an argument drawn so far lies outside the buffer  *)
(* or names a byte 255), out_ptr, binding (the closure that runs), hist    *)
(* (whether a call, and then a resize, came before) and after_resize (the  *)
(* call started after an earlier call and a resize).                       *)
(***************************************************************************)
RetNone == [kind |-> "none", code |-> 0, msg |-> ""]
RetCode(c) == [kind |-> "code", code |-> c, msg |-> ""]
RetTrap(msg) == [kind |-> "trap", code |-> 0, msg |-> msg]
RetPanic == [kind |-> "panic", code |-> 0, msg |-> ""]

NoCall ==
    [pc |-> "idle", idx |-> 0, res |-> Ok(<<>>), handle |-> <<>>, ret |-> RetNone,
     log |-> <<>>, view_len |-> -1, shim_calls |-> 0, decoded |-> 0, got |-> FALSE,
     proto_ok |-> FALSE, shim_ok |-> FALSE, written |-> FALSE, unchanged |-> TRUE,
     oob |-> FALSE, bad_arg |-> FALSE, out_ptr |-> -1, binding |-> 0, hist |-> "fresh",
     after_resize |-> FALSE]

Idle == call.pc \in {"idle", "done", "resized"}

\* the buffer as the WasmMemoryHandle of the call sees it: view_len bytes from its base
View == [i \in 1..call.view_len |-> IF i <= Len(mem) THEN mem[i] ELSE 170]

\* a handed-out range reaches past the buffer
Past(touched, memory) == \E i \in touched : i >= Len(memory)

\* the bytes of the buffer (those that exist) at offsets ptr .. ptr+len-1
Named(memory, ptr, len) == {memory[i + 1] : i \in {j \in Offsets(ptr, ptr + len) : j < Len(memory)}}

Init ==
    /\ mem = Image
    /\ exportKind \in ExportKinds
    /\ linker = {}
    /\ importRes = <<>>
    /\ inp = NoInput
    /\ call = NoCall

Imports ==
    /\ Len(importRes) < MaxImports
    /\ call.pc = "idle"
    /\ LET r == imports(linker, Len(importRes) + 1)
       IN  /\ linker' = r.linker
           /\ importRes' = Append(importRes, r.res)
    /\ UNCHANGED <<mem, exportKind, inp, call>>

\* the closure starts: get_host_context_from_caller, a failure becomes a Trap
CallBegin ==
    /\ Instantiated
    /\ Idle
    /\ LET ctx == get_host_context_from_caller(mem, exportKind)
           c0 == [NoCall EXCEPT !.binding = BindingOf(linker), !.hist = call.hist,
                                !.after_resize = (call.hist = "called_resized")]
       IN  call' = IF ctx.ok
                   THEN [c0 EXCEPT !.pc = "get", !.view_len = Len(ctx.val)]
                   ELSE [c0 EXCEPT !.pc = "done", !.ret = RetTrap(display(ctx.err)),
                                   !.res = Err(ctx.err)]
    /\ UNCHANGED <<mem, exportKind, linker, importRes, inp>>

\* Self::get(host_context)?
CallGet ==
    /\ call.pc = "get"
    /\ \E getRes \in GetResults :
         call' = IF getRes.ok
                 THEN [call EXCEPT !.pc = "decode", !.idx = 1, !.got = TRUE]
                 ELSE [call EXCEPT !.pc = "log", !.res = Err(getRes.err)]
    /\ UNCHANGED <<mem, exportKind, linker, importRes, inp>>

\* memory_string(memory, ptr, len)? for the five strings, in argument order
CallDecode ==
    /\ call.pc = "decode"
    /\ \E ptr \in U32, len \in StrLens :
         LET r == memory_string(View, ptr, len)
             c1 == [call EXCEPT !.oob = @ \/ Past(r.touched, mem),
                                !.bad_arg = @ \/ ptr + len > Len(mem)
                                              \/ 255 \in Named(mem, ptr, len)]
         IN  call' = IF r.st = "ok"
                     THEN [c1 EXCEPT !.decoded = @ + 1,
                                     !.idx = IF @ = 5 THEN 0 ELSE @ + 1,
                                     !.pc = IF call.idx = 5 THEN "protocol" ELSE "decode"]
                     ELSE [c1 EXCEPT !.pc = "log", !.res = Err(r.err)]
    /\ UNCHANGED <<mem, exportKind, linker, importRes, inp>>

\* get_value(memory, _protocol_ptr)?
CallProtocol ==
    /\ call.pc = "protocol"
    /\ \E ptr \in U32, ub \in UBOutcomes :
         LET r == get_value(View, ptr, TyProtocolConfig, ub)
             c1 == [call EXCEPT !.oob = @ \/ Past(r.touched, mem),
                                !.bad_arg = @ \/ ptr + ProtocolConfigSize > Len(mem)]
         IN  call' = IF r.st = "ok" THEN [c1 EXCEPT !.pc = "shim", !.proto_ok = TRUE]
                     ELSE IF r.st = "err" THEN [c1 EXCEPT !.pc = "log", !.res = Err(r.err)]
                     ELSE [c1 EXCEPT !.pc = "done", !.ret = RetPanic]
    /\ UNCHANGED <<mem, exportKind, linker, importRes, inp>>

\* start_training_shim's error dropped: the output is written all the same
CallShimUnchecked ==
    /\ call.pc = "shim"
    /\ \E shimRes \in ShimResults :
         call' = IF shimRes.ok
                 THEN [call EXCEPT !.pc = "output", !.shim_calls = @ + 1,
                                   !.shim_ok = TRUE, !.handle = shimRes.val]
                 ELSE [call EXCEPT !.pc = "output", !.shim_calls = @ + 1,
                                   !.handle = LE(0, FutureHandleSize)]
    /\ UNCHANGED <<mem, exportKind, linker, importRes, inp>>

\* .start_training_shim(..)
CallShim ==
    /\ call.pc = "shim"
    /\ \E shimRes \in ShimResults :
         call' = IF shimRes.ok
                 THEN [call EXCEPT !.pc = "output", !.shim_calls = @ + 1,
                                   !.shim_ok = TRUE, !.handle = shimRes.val]
                 ELSE [call EXCEPT !.pc = "log", !.shim_calls = @ + 1,
                                   !.res = Err(shimRes.err)]
    /\ UNCHANGED <<mem, exportKind, linker, importRes, inp>>

\* .and_then(|res| { let output = get_value_mut(memory, _output_ptr)?; *output = res; Ok(()) })
CallOutput ==
    /\ call.pc = "output"
    /\ \E ptr \in OutPtrs, ub \in UBOutcomes :
         LET r == get_value_mut(View, ptr, TyFutureHandle, ub)
             c1 == [call EXCEPT !.oob = @ \/ Past(r.touched, mem), !.out_ptr = ptr]
             m1 == Store(mem, r.val.off, call.handle)
         IN  IF r.st = "ok"
             THEN /\ mem' = m1
                  /\ call' = [c1 EXCEPT !.pc = "log", !.written = TRUE,
                                        !.unchanged = @ /\ m1 = mem]
             ELSE /\ mem' = mem
                  /\ call' = IF r.st = "err"
                             THEN [c1 EXCEPT !.pc = "log", !.res = Err(r.err)]
                             ELSE [c1 EXCEPT !.pc = "done", !.ret = RetPanic]
    /\ UNCHANGED <<exportKind, linker, importRes, inp>>

\* Self::log_call("start_training", result)
CallLog ==
    /\ call.pc = "log"
    /\ LET lc == log_call("start_training", call.res)
       IN  call' = [call EXCEPT !.pc = "done", !.log = lc.log, !.ret = RetCode(lc.code),
                                !.hist = "called"]
    /\ UNCHANGED <<mem, exportKind, linker, importRes, inp>>

Resized == IF call.hist = "fresh" THEN "fresh" ELSE "called_resized"

\* the guest grows its memory between calls
Grow ==
    /\ Instantiated
    /\ Idle
    /\ Len(mem) + GrowStep <= U32Max + 1
    /\ mem' = mem \o [i \in 1..GrowStep |-> 0]
    /\ call' = [NoCall EXCEPT !.pc = "resized", !.hist = Resized]
    /\ UNCHANGED <<exportKind, linker, importRes, inp>>

\* the buffer is shorter at the next call
Shrink ==
    /\ Instantiated
    /\ Idle
    /\ Len(mem) >= GrowStep
    /\ mem' = SubSeq(mem, 1, Len(mem) - GrowStep)
    /\ call' = [NoCall EXCEPT !.pc = "resized", !.hist = Resized]
    /\ UNCHANGED <<exportKind, linker, importRes, inp>>

Next ==
    \/ Imports
    \/ CallBegin
    \/ CallGet
    \/ CallDecode
    \/ CallProtocol
    \/ CallShim
    \/ CallOutput
    \/ CallLog
    \/ Grow
    \/ Shrink

Spec == Init /\ [][Next]_vars

(***************************************************************************)
(* The accessors on their own: one accessor is applied to a buffer with    *)
(* arguments drawn from the whole u32 range, and a write is read back.     *)
(* inp records the arguments and the outcome.                              *)
(***************************************************************************)
MemImages == {<<>>, Image, Image \o <<0, 0, 0, 0>>}

\* values of a T, as the bytes they are made of
Values(T) == {[i \in 1..T.size |-> i], [i \in 1..T.size |-> 255]}

InitMem ==
    /\ mem \in MemImages
    /\ exportKind = "memory"
    /\ linker = {}
    /\ importRes = <<>>
    /\ inp = NoInput
    /\ call = NoCall

\* get_value::<T>(memory, ptr)
ReadScalar ==
    /\ inp.op = "none"
    /\ \E ptr \in U32, T \in PodTypes, ub \in UBOutcomes :
         inp' = [op |-> "read_scalar", ptr |-> ptr, count |-> 1, ty |-> T, ub |-> ub,
                 val |-> <<>>, res |-> get_value(mem, ptr, T, ub)]
    /\ UNCHANGED <<mem, exportKind, linker, importRes, call>>

\* *get_value_mut::<T>(memory, ptr)? = v
WriteScalar ==
    /\ inp.op = "none"
    /\ \E ptr \in U32, T \in PodTypes, ub \in UBOutcomes :
         \E v \in Values(T) :
           LET r == get_value_mut(mem, ptr, T, ub)
           IN  /\ inp' = [op |-> "write_scalar", ptr |-> ptr, count |-> 1, ty |-> T,
                          ub |-> ub, val |-> v, res |-> r]
               /\ mem' = IF r.st = "ok" THEN Store(mem, r.val.off, v) ELSE mem
    /\ UNCHANGED <<exportKind, linker, importRes, call>>

\* get_value::<T>(memory, ptr) after the write, at the same ptr, in the same build
ReadBack ==
    /\ inp.op = "write_scalar"
    /\ inp.res.st = "ok"
    /\ inp' = [inp EXCEPT !.op = "read_back",
                          !.res = get_value(mem, inp.ptr, inp.ty, inp.ub)]
    /\ UNCHANGED <<mem, exportKind, linker, importRes, call>>

\* memory_slice::<T>(memory, ptr, len)
ReadSlice ==
    /\ inp.op = "none"
    /\ \E ptr \in U32, len \in U32, T \in PodTypes, ub \in UBOutcomes :
         inp' = [op |-> "read_slice", ptr |-> ptr, count |-> len, ty |-> T, ub |-> ub,
                 val |-> <<>>, res |-> memory_slice(mem, ptr, len, T, ub)]
    /\ UNCHANGED <<mem, exportKind, linker, importRes, call>>

\* memory_string(memory, ptr, len)
ReadUtf8 ==
    /\ inp.op = "none"
    /\ \E ptr \in U32, len \in U32 :
         inp' = [op |-> "read_utf8", ptr |-> ptr, count |-> len, ty |-> TyU8,
                 ub |-> "access", val |-> <<>>, res |-> memory_string(mem, ptr, len)]
    /\ UNCHANGED <<mem, exportKind, linker, importRes, call>>

NextMem == ReadScalar \/ WriteScalar \/ ReadBack \/ ReadSlice \/ ReadUtf8

SpecMem == InitMem /\ [][NextMem]_vars

(***************************************************************************)
(* Properties of the accessors (checked under SpecMem).                    *)
(***************************************************************************)
Need == inp.count * inp.ty.size

Rejected == inp.res.st = "err" /\ inp.res.err.kind = "InvalidArguments"

\* C1: an accessor whose range ends past the buffer, or whose byte length
\* overflows, returns InvalidArguments, and no accessor ever hands out a byte at an
\* offset >= the buffer length.
C1_OutOfBoundsRejected ==
    /\ inp.op \in {"read_scalar", "write_scalar"} /\ inp.ptr + inp.ty.size > Len(mem)
          => Rejected
    /\ inp.op \in {"read_slice", "read_utf8"} /\ (Need > UsizeMax \/ inp.ptr + Need > Len(mem))
          => Rejected
    /\ inp.op # "none" => \A i \in inp.res.touched : i < Len(mem)

\* a slice whose byte length overflows usize was asked for and refused
C1_Witness ==
    /\ inp.op = "read_slice"
    /\ Need > UsizeMax
    /\ Rejected

\* C6: a value written through get_value_mut at an in-bounds ptr is read back
\* through get_value at the same ptr, equal to what was written.
C6_RoundTrip ==
    /\ inp.op = "write_scalar" /\ inp.ptr + inp.ty.size <= Len(mem) => inp.res.st = "ok"
    /\ inp.op = "read_back" => inp.res.st = "ok" /\ inp.res.val.bytes = inp.val

\* C10: memory_slice succeeds whenever the byte length does not overflow and the
\* range lies within the buffer, and the slice has exactly count elements at ptr.
C10_SliceSucceedsInBounds ==
    inp.op = "read_slice" /\ Need <= UsizeMax /\ inp.ptr + Need <= Len(mem)
        => /\ inp.res.st = "ok"
           /\ Len(inp.res.val.elems) = inp.count
           /\ inp.res.val.off = inp.ptr

(***************************************************************************)
(* Properties of the import (checked under Spec).                          *)
(***************************************************************************)
Done == call.pc = "done"

\* every step of the call succeeded and the handle lies at output_ptr
FullySucceeded ==
    /\ call.got /\ call.decoded = 5 /\ call.proto_ok /\ call.shim_ok /\ call.written
    /\ BytesAt(mem, call.out_ptr, call.out_ptr + FutureHandleSize) = call.handle

\* C2: the u32 a call returns is 0 exactly when the call fully succeeded.
C2_ZeroIffSucceeded ==
    Done /\ call.ret.kind = "code" => (call.ret.code = 0 <=> FullySucceeded)

\* a call returned 0
C2_Witness == Done /\ call.ret.kind = "code" /\ call.ret.code = 0 /\ call.written

\* the message of an error as the warning shows it
Rendered(err) ==
    IF err.msg.tag = "None" THEN "Invalid arguments" ELSE "Invalid arguments: " \o err.msg.s

\* C3: no warning for a success or for NotFound; for every other error exactly one
\* warning naming the module, the operation and the message, written by the time the
\* code is returned, and none before log_call runs.
C3_LogPolicy ==
    /\ ~Done => call.log = <<>>
    /\ Done /\ call.ret.kind = "code" =>
          /\ call.res.ok => call.log = <<>>
          /\ ~call.res.ok /\ call.ret.code = NotFound => call.log = <<>>
          /\ ~call.res.ok /\ call.ret.code # NotFound =>
                /\ Len(call.log) = 1
                /\ call.log[1].level = "warn"
                /\ call.log[1].text
                      = "MLApiHost \"start_training\" failed: " \o Rendered(call.res.err)

\* a string that is not UTF-8 was refused and the warning written
C3_Witness ==
    /\ Done
    /\ call.ret = RetCode(InvalidArguments)
    /\ Len(call.log) = 1
    /\ call.res.err.msg.tag = "Dynamic"

\* C4 as stated: nothing that fails at call time is raised as a trap.
C4_NeverTrap == call.ret.kind # "trap"

\* C4 as amended: the import traps exactly when the guest's exported memory does not
\* resolve; every ApiError after that is returned as a non-zero code.
C4_TrapOnlyWithoutMemory ==
    /\ call.ret.kind = "trap" => exportKind # "memory" /\ call.shim_calls = 0
    /\ Done /\ exportKind # "memory" => call.ret.kind = "trap"
    /\ Done /\ exportKind = "memory" /\ ~call.res.ok =>
          call.ret.kind = "code" /\ call.ret.code # 0

\* the export named memory is not a memory and the call trapped
C4_Witness == Done /\ exportKind = "func" /\ call.ret.kind = "trap"

\* C5: when an argument fails to decode the call returns InvalidArguments, the host
\* capability is not invoked and no byte of guest memory changes.
C5_DecodeFailureAtomic ==
    Done /\ call.ret.kind # "trap" /\ (call.bad_arg \/ (call.got /\ ~call.proto_ok)) =>
        /\ call.ret = RetCode(InvalidArguments)
        /\ call.shim_calls = 0
        /\ call.unchanged
        /\ ~call.written

\* the fifth string is not UTF-8
C5_Witness ==
    /\ Done
    /\ call.decoded = 4
    /\ ~call.res.ok
    /\ call.res.err.msg.tag = "Dynamic"
    /\ call.ret = RetCode(InvalidArguments)

\* C7: the first imports binds hello::world__start_training; every later one
\* returns InstantiationError::Import and leaves the first binding in effect.
C7_Registration ==
    /\ importRes = <<>> => linker = {}
    /\ importRes # <<>> =>
          /\ importRes[1].ok
          /\ linker = {[module |-> "hello", name |-> "world__start_training", binding |-> 1]}
    /\ \A i \in 2..Len(importRes) : ~importRes[i].ok /\ importRes[i].err.kind = "Import"

\* the import was registered a second time
C7_Witness == Len(importRes) >= 2 /\ ~importRes[2].ok /\ Registered

\* C8: the view of a call has the length the buffer has at that call, and nothing
\* it hands out reaches past the buffer, whatever calls and resizes came before.
C8_FreshView ==
    /\ call.view_len # -1 => call.view_len = Len(mem)
    /\ ~call.oob
    /\ call.written => call.out_ptr + FutureHandleSize <= Len(mem)

\* after an earlier call the buffer shrank, and this call refused what lies past it
C8_Witness ==
    /\ Done
    /\ call.after_resize
    /\ call.view_len < Len(Image)
    /\ call.bad_arg
    /\ call.ret = RetCode(InvalidArguments)

\* C9: the host capability runs at most once and only after the context and all
\* arguments were obtained; the output range is checked and written only after it
\* succeeded; with an output range past the buffer the call returns InvalidArguments
\* after one invocation and changes no byte.
C9_Ordering ==
    /\ call.shim_calls <= 1
    /\ call.shim_calls = 1 => call.got /\ call.decoded = 5 /\ call.proto_ok
    /\ call.out_ptr # -1 \/ call.written => call.shim_ok /\ call.shim_calls = 1
    /\ Done /\ call.out_ptr # -1 /\ call.out_ptr + FutureHandleSize > Len(mem) =>
          /\ call.ret = RetCode(InvalidArguments)
          /\ call.shim_calls = 1
          /\ call.unchanged
          /\ ~call.written

\* all inputs were valid and the output range lies past the buffer
C9_Witness ==
    /\ Done
    /\ call.shim_ok
    /\ call.out_ptr + FutureHandleSize > Len(mem)
    /\ call.ret = RetCode(InvalidArguments)
====
